---- MODULE Spec2Model ----
(***************************************************************************)
(* LibraryService (src/src/services/library.service.ts): a catalog of      *)
(* UserEbook records with optional binary payloads, kept in an in-memory   *)
(* cache (books) and persisted through one of the backends                 *)
(*   native        Capacitor Preferences (records) + Filesystem (payloads) *)
(*   transactional IndexedDB stores 'books' and 'files'                    *)
(*   flat          localStorage key 'library_meta' (records only).         *)
(* Every public method is one action; the requests a method sends to a     *)
(* backend may each fail, which the action draws with \E.                  *)
(*                                                                         *)
(* Abstractions.  A record keeps the fields the code reads: id, addedDate, *)
(* fileType, fileMimeType.  An id 'book-<ms>-<random>' is the number of    *)
(* the addBook call that made it (Date.now() and the random suffix never   *)
(* repeat), a date the number of the day, and the clock never goes back.   *)
(* A stored JSON text is the sequence of records it serialises; an absent  *)
(* key and the text '[]' both load as the empty sequence.  A backend       *)
(* request that fails changes nothing in the backend.                      *)
(***************************************************************************)
EXTENDS Integers, Sequences, FiniteSets, TLC

\* ------------------------------------------------------------------ bounds
MaxAdds == 2
MaxDay == 2
MaxCalls == 3
MaxRestarts == 1
MaxFaults == 2
MaxLen == 3
SmallChunk == 2
MaxInflight == 2
\* MaxAdds addBook calls, MaxDay calendar days, MaxCalls calls of the mutating
\* methods, MaxRestarts process restarts, MaxFaults failing backend requests;
\* MaxLen bytes in a buffer given to the codec, SmallChunk the chunk size that
\* stands for 8192 where buffers longer than a chunk are needed; MaxInflight
\* mutating calls awaiting a backend at the same time.

\* ------------------------------------------------------------- value space
\* A field that a JS object does not carry.
AbsentStr == "absent"
AbsentNum == 0

DefaultMime == "application/pdf"
FileTypes == {"PDF", "URL"}
MimeTypes == {"image/png"}

\* Payload inputs of addBook: no ArrayBuffer, or the bytes '%PDF'.
NoData == <<-1>>
Payloads == {<<37, 80, 68, 70>>}

Ids == 1..MaxAdds
Days == 1..MaxDay

\* UserEbook, and Partial<UserEbook> when some fields are absent.
UserEbook == [id : Ids, addedDate : Days, fileType : FileTypes, fileMimeType : MimeTypes \cup {AbsentStr}]

\* The object {} : what spreading `undefined` contributes.
EmptyObj == [id |-> AbsentNum, addedDate |-> AbsentNum, fileType |-> AbsentStr, fileMimeType |-> AbsentStr]

\* Partial<UserEbook> values a caller of updateBook passes: one field each.
Updates == {[EmptyObj EXCEPT !.id = i] : i \in Ids} \cup {[EmptyObj EXCEPT !.addedDate = d] : d \in Days} \cup {[EmptyObj EXCEPT !.fileType = t] : t \in FileTypes} \cup {[EmptyObj EXCEPT !.fileMimeType = m] : m \in MimeTypes}

\* ---------------------------------------------------------- list helpers
\* Array.prototype.findIndex, 1-based; 0 when no element has the id (JS: -1).
FindIndex(list, id) == IF \E i \in 1..Len(list) : list[i].id = id THEN CHOOSE i \in 1..Len(list) : list[i].id = id /\ \A j \in 1..(i - 1) : list[j].id # id ELSE 0

\* list.map(b => b.id === id ? book : b)
ReplaceById(list, id, book) == [i \in 1..Len(list) |-> IF list[i].id = id THEN book ELSE list[i]]

\* list.filter(b => b.id !== id)
FilterOutId(list, id) == SelectSeq(list, LAMBDA b : b.id # id)

\* [book, ...list]
Prepend(book, list) == <<book>> \o list

\* { ...a, ...b } on the modelled fields
Spread(a, b) == [id |-> IF b.id # AbsentNum THEN b.id ELSE a.id, addedDate |-> IF b.addedDate # AbsentNum THEN b.addedDate ELSE a.addedDate, fileType |-> IF b.fileType # AbsentStr THEN b.fileType ELSE a.fileType, fileMimeType |-> IF b.fileMimeType # AbsentStr THEN b.fileMimeType ELSE a.fileMimeType]

IdsOf(list) == {list[i].id : i \in 1..Len(list)}

\* One step of a stable sort: x goes after every element whose date is >= its own.
RECURSIVE InsertDesc(_, _)
InsertDesc(x, s) == IF s = << >> THEN <<x>> ELSE IF Head(s).addedDate >= x.addedDate THEN <<Head(s)>> \o InsertDesc(x, Tail(s)) ELSE <<x>> \o s

\* list.sort((a, b) => date(b) - date(a)): descending by addedDate, stable.
RECURSIVE SortByDateDesc(_)
SortByDateDesc(list) == IF list = << >> THEN << >> ELSE InsertDesc(list[Len(list)], SortByDateDesc(SubSeq(list, 1, Len(list) - 1)))

\* ------------------------------------------------------------ binary codec
\* Texts are sequences of symbol codes: 0..63 the radix-64 alphabet, PadSym '='.
chunkSize == 8192
PadSym == 64
CommaSym == 65

Min(a, b) == IF a < b THEN a ELSE b

\* The loop of _arrayBufferToBase64: binary += String.fromCharCode(...chunk); a
\* char code is the byte it was made from.
\* A chunk loop whose slice stops one byte early.
RECURSIVE BinaryStringShort(_, _, _)
BinaryStringShort(bytes, i, size) == IF i > Len(bytes) THEN << >> ELSE SubSeq(bytes, i, Min(i + size - 2, Len(bytes))) \o BinaryStringShort(bytes, i + size, size)

\* The loop of _arrayBufferToBase64 for a chunk size: binary += fromCharCode(...subarray(i, i + size)).
RECURSIVE BinaryStringBy(_, _, _)
BinaryStringBy(bytes, i, size) == IF i > Len(bytes) THEN << >> ELSE SubSeq(bytes, i, Min(i + size - 1, Len(bytes))) \o BinaryStringBy(bytes, i + size, size)

BinaryString(bytes, i) == BinaryStringBy(bytes, i, chunkSize)

\* btoa: three chars to four symbols, '=' padding on a short last group.
RECURSIVE Btoa(_)
Btoa(bin) == IF Len(bin) = 0 THEN << >> ELSE IF Len(bin) = 1 THEN <<bin[1] \div 4, (bin[1] % 4) * 16, PadSym, PadSym>> ELSE IF Len(bin) = 2 THEN <<bin[1] \div 4, (bin[1] % 4) * 16 + bin[2] \div 16, (bin[2] % 16) * 4, PadSym>> ELSE <<bin[1] \div 4, (bin[1] % 4) * 16 + bin[2] \div 16, (bin[2] % 16) * 4 + bin[3] \div 64, bin[3] % 64>> \o Btoa(SubSeq(bin, 4, Len(bin)))

\* atob: four symbols to up to three chars.
\* A decoder that takes the padding symbol for a digit: three bytes per group.
RECURSIVE AtobNoPadding(_)
AtobNoPadding(t) == IF Len(t) < 4 THEN << >> ELSE <<t[1] * 4 + (t[2] % 64) \div 16, (t[2] % 16) * 16 + (t[3] % 64) \div 4, (t[3] % 4) * 64 + (t[4] % 64)>> \o AtobNoPadding(SubSeq(t, 5, Len(t)))

RECURSIVE Atob(_)
Atob(t) == IF Len(t) < 4 THEN << >> ELSE (IF t[3] = PadSym THEN <<t[1] * 4 + t[2] \div 16>> ELSE IF t[4] = PadSym THEN <<t[1] * 4 + t[2] \div 16, (t[2] % 16) * 16 + t[3] \div 4>> ELSE <<t[1] * 4 + t[2] \div 16, (t[2] % 16) * 16 + t[3] \div 4, (t[3] % 4) * 64 + t[4]>>) \o Atob(SubSeq(t, 5, Len(t)))

arrayBufferToBase64(buffer) == Btoa(BinaryString(buffer, 1))

\* _arrayBufferToBase64 with the chunk size as a parameter.
arrayBufferToBase64By(buffer, size) == Btoa(BinaryStringBy(buffer, 1, size))

\* base64.split(',')[1]: the text between the first comma and the next one.
RECURSIVE UpToComma(_)
UpToComma(t) == IF t = << >> \/ Head(t) = CommaSym THEN << >> ELSE <<Head(t)>> \o UpToComma(Tail(t))

AfterFirstComma(t) == UpToComma(SubSeq(t, Len(UpToComma(t)) + 2, Len(t)))

base64ToArrayBuffer(base64) == Atob(IF \E i \in 1..Len(base64) : base64[i] = CommaSym THEN AfterFirstComma(base64) ELSE base64)

\* FileReader.readAsDataURL of a Blob: 'data:<mime>;base64,<text>'.
arrayBufferToDataUrl(buffer, mimeType) == [mime |-> mimeType, text |-> Btoa(buffer)]

\* -------------------------------------------------------------------- state
VARIABLES isNative, Preferences, Filesystem, db, books, isLoading, prefsValue, lsValue, idbBooks, idbFiles, fsFiles, nextId, today, phase, calls, restarts, faults, last, bare, codec, tasks

vars == <<isNative, Preferences, Filesystem, db, books, isLoading, prefsValue, lsValue, idbBooks, idbFiles, fsFiles, nextId, today, phase, calls, restarts, faults, last, bare, codec, tasks>>

\* The variables of the codec and of the calls in flight, which the atomic
\* actions leave alone.
aux == <<codec, tasks>>

\* The backends' contents, which outlive the process.
stores == <<prefsValue, lsValue, idbBooks, idbFiles, fsFiles>>

\* A function with no key: an empty object store, an empty directory.
EmptyStore == [k \in {} |-> 0]

Put(store, key, value) == [k \in DOMAIN store \cup {key} |-> IF k = key THEN value ELSE store[k]]

Remove(store, key) == [k \in DOMAIN store \ {key} |-> store[k]]

\* What the last finished call did (history, read by the properties only):
\* recFail, fileFail: its record, payload request failed; fileTried: it reached
\* the payload step; writes: the backend write requests it sent; data: the bytes
\* given to addBook; loadFail, flatFail: init's load from the tier, from
\* localStorage failed; allReturned: no mutation has thrown so far.
NoCall == [op |-> "none", id |-> AbsentNum, threw |-> FALSE, recFail |-> FALSE, fileFail |-> FALSE, fileTried |-> FALSE, hasData |-> FALSE, fileType |-> AbsentStr, writes |-> 0, data |-> NoData, loadFail |-> FALSE, flatFail |-> FALSE, allReturned |-> TRUE]

\* --------------------------------------------------- flat tier (localStorage)
\* _localStorageLoadBooks: the stored order, unsorted; [] when getItem throws.
localStorageLoadBooks(failGet) == IF failGet THEN << >> ELSE lsValue

\* _localStorageSaveBooks: the new value of the key; setItem's throw is swallowed.
localStorageSaveBooks(list, failLs) == IF failLs THEN lsValue ELSE list

\* _localStorageSaveBook: replace the first record with the id, else unshift.
localStorageSaveBook(book, failLs) == localStorageSaveBooks(IF FindIndex(books, book.id) > 0 THEN [books EXCEPT ![FindIndex(books, book.id)] = book] ELSE Prepend(book, books), failLs)

\* ------------------------------------------------------------- native tier
\* _nativeLoadBooks, given the capability init has just acquired.
nativeLoadBooks(hasPrefs, failGet, failLsGet) == IF ~hasPrefs THEN localStorageLoadBooks(failLsGet) ELSE IF failGet THEN << >> ELSE SortByDateDesc(prefsValue)

\* _nativeSaveBooks never throws: a failed Preferences.set is caught and the list
\* goes to localStorage instead.
nativeSaveBooks(list, failSet, failLs) == IF ~Preferences \/ failSet THEN [threw |-> FALSE, prefs |-> prefsValue, ls |-> localStorageSaveBooks(list, failLs), idb |-> idbBooks] ELSE [threw |-> FALSE, prefs |-> list, ls |-> lsValue, idb |-> idbBooks]

\* _nativeSaveFile: skipped without the plugin; writeFile's failure is not caught.
nativeSaveFile(file, failWrite) == IF ~Filesystem THEN [threw |-> FALSE, fs |-> fsFiles, idb |-> idbFiles] ELSE IF failWrite THEN [threw |-> TRUE, fs |-> fsFiles, idb |-> idbFiles] ELSE [threw |-> FALSE, fs |-> Put(fsFiles, file.id, arrayBufferToBase64(file.data)), idb |-> idbFiles]

\* A _nativeDeleteFile that returns without asking the Filesystem for anything.
nativeDeleteFileSkipped(id, failDel) == [threw |-> FALSE, fs |-> fsFiles, idb |-> idbFiles]

\* _nativeDeleteFile: every failure is swallowed.
nativeDeleteFile(id, failDel) == IF ~Filesystem \/ failDel THEN [threw |-> FALSE, fs |-> fsFiles, idb |-> idbFiles] ELSE [threw |-> FALSE, fs |-> Remove(fsFiles, id), idb |-> idbFiles]

\* A cached record's MIME type, as _nativeGetFile reads it.
nativeMimeOf(bookId) == IF FindIndex(books, bookId) > 0 /\ books[FindIndex(books, bookId)].fileMimeType # AbsentStr THEN books[FindIndex(books, bookId)].fileMimeType ELSE DefaultMime

\* _nativeGetFile: << >> is null; readFile of a missing file throws, caught.
nativeGetFile(bookId, failRead) == IF ~Filesystem \/ failRead \/ bookId \notin DOMAIN fsFiles THEN [threw |-> FALSE, file |-> << >>] ELSE [threw |-> FALSE, file |-> <<[id |-> bookId, data |-> base64ToArrayBuffer(fsFiles[bookId]), mimeType |-> nativeMimeOf(bookId)]>>]

\* ------------------------------------------------- transactional tier (IDB)
\* The keys of a store in ascending order, as getAll walks them.
RECURSIVE KeysAsc(_)
KeysAsc(keys) == IF keys = {} THEN << >> ELSE LET k == CHOOSE x \in keys : \A y \in keys : x <= y IN <<k>> \o KeysAsc(keys \ {k})

\* _getAllBooks on an open store.
getAllBooks == SortByDateDesc([i \in 1..Cardinality(DOMAIN idbBooks) |-> idbBooks[KeysAsc(DOMAIN idbBooks)[i]]])

\* _idbSaveBook that mirrors every record into localStorage, store open or not.
idbSaveBookFlatToo(book, failPut, failLs) == IF failPut \/ book.id = AbsentNum THEN [threw |-> TRUE, prefs |-> prefsValue, ls |-> lsValue, idb |-> idbBooks] ELSE [threw |-> FALSE, prefs |-> prefsValue, ls |-> localStorageSaveBook(book, failLs), idb |-> Put(idbBooks, book.id, book)]

\* _idbSaveBook: without a store the record goes to localStorage; put is an upsert
\* on the keyPath 'id', and rejects when the request errors or the key is missing.
idbSaveBook(book, failPut, failLs) == IF ~db THEN [threw |-> FALSE, prefs |-> prefsValue, ls |-> localStorageSaveBook(book, failLs), idb |-> idbBooks] ELSE IF failPut \/ book.id = AbsentNum THEN [threw |-> TRUE, prefs |-> prefsValue, ls |-> lsValue, idb |-> idbBooks] ELSE [threw |-> FALSE, prefs |-> prefsValue, ls |-> lsValue, idb |-> Put(idbBooks, book.id, book)]

\* _idbDeleteBook
idbDeleteBook(id, failDel) == IF ~db THEN [threw |-> FALSE, prefs |-> prefsValue, ls |-> lsValue, idb |-> idbBooks] ELSE IF failDel THEN [threw |-> TRUE, prefs |-> prefsValue, ls |-> lsValue, idb |-> idbBooks] ELSE [threw |-> FALSE, prefs |-> prefsValue, ls |-> lsValue, idb |-> Remove(idbBooks, id)]

\* _idbSaveFile: the bytes are stored as Array.from(new Uint8Array(data)).
idbSaveFile(file, failPut) == IF ~db THEN [threw |-> FALSE, fs |-> fsFiles, idb |-> idbFiles] ELSE IF failPut THEN [threw |-> TRUE, fs |-> fsFiles, idb |-> idbFiles] ELSE [threw |-> FALSE, fs |-> fsFiles, idb |-> Put(idbFiles, file.id, [id |-> file.id, data |-> [i \in 1..Len(file.data) |-> file.data[i] % 256], mimeType |-> file.mimeType])]

\* _idbDeleteFile
idbDeleteFile(id, failDel) == IF ~db THEN [threw |-> FALSE, fs |-> fsFiles, idb |-> idbFiles] ELSE IF failDel THEN [threw |-> TRUE, fs |-> fsFiles, idb |-> idbFiles] ELSE [threw |-> FALSE, fs |-> fsFiles, idb |-> Remove(idbFiles, id)]

\* _idbGetFile: a number[] is turned back into a buffer by new Uint8Array(raw.data).
idbGetFile(id, failGet) == IF ~db THEN [threw |-> FALSE, file |-> << >>] ELSE IF failGet THEN [threw |-> TRUE, file |-> << >>] ELSE IF id \notin DOMAIN idbFiles THEN [threw |-> FALSE, file |-> << >>] ELSE [threw |-> FALSE, file |-> <<[id |-> idbFiles[id].id, data |-> [i \in 1..Len(idbFiles[id].data) |-> idbFiles[id].data[i] % 256], mimeType |-> idbFiles[id].mimeType]>>]

\* ------------------------------------------------- routing (native vs web)
\* _saveBook: the native list is computed from the cache, not from the store.
saveBook(book, failRec, failLs) == IF isNative THEN nativeSaveBooks(IF FindIndex(books, book.id) > 0 THEN ReplaceById(books, book.id, book) ELSE Prepend(book, books), failRec, failLs) ELSE idbSaveBook(book, failRec, failLs)

\* _deleteBook
deleteBookRecord(id, failRec, failLs) == IF isNative THEN nativeSaveBooks(FilterOutId(books, id), failRec, failLs) ELSE idbDeleteBook(id, failRec)

\* _saveFile
saveFile(file, failFile) == IF isNative THEN nativeSaveFile(file, failFile) ELSE idbSaveFile(file, failFile)

\* _getFile
getFile(id, failRead) == IF isNative THEN nativeGetFile(id, failRead) ELSE idbGetFile(id, failRead)

\* _deleteFile
deleteFile(id, failFile) == IF isNative THEN nativeDeleteFile(id, failFile) ELSE idbDeleteFile(id, failFile)

\* Whether a call's record request reaches a backend that can fail, and fails:
\* Preferences.set or the IDB request when there is one, else localStorage.setItem.
RecWriteFails(failRec, failLs) == IF isNative THEN (IF Preferences THEN failRec ELSE failLs) ELSE (IF db THEN failRec ELSE failLs)

\* Whether a call's payload request reaches a backend and fails.
FileRequestFails(failFile) == failFile /\ (IF isNative THEN Filesystem ELSE db)

B(b) == IF b THEN 1 ELSE 0

\* The requests of a record write that fail: Preferences.set and then the flat
\* write that follows it, or the IDB request, or localStorage.setItem alone.
RecFaults(failRec, failLs) == IF isNative THEN (IF Preferences THEN B(failRec) + B(failRec /\ failLs) ELSE B(failLs)) ELSE (IF db THEN B(failRec) ELSE B(failLs))

\* Backend requests a call sends: the record write (two when Preferences.set fails
\* and the list is written to localStorage instead), and the payload request.
RecRequests(failRec) == IF isNative /\ Preferences /\ failRec THEN 2 ELSE 1

FileRequests == IF (IF isNative THEN Filesystem ELSE db) THEN 1 ELSE 0

\* ------------------------------------------------------------------- facade
\* The condition without the fileType test: bytes are written for a 'URL' record too.
ShouldSaveFileAnyType(fileData, book) == fileData # NoData

\* addBook's condition for writing the payload.
ShouldSaveFile(fileData, book) == fileData # NoData /\ book.fileType # "URL"

\* updateBook without its early return: an absent record is merged and saved.
NotFoundIgnored(idx) == FALSE

\* updateBook's early return: this.books().find(...) found nothing.
NotFound(idx) == idx = 0

\* The object updateBook merges the updates onto.
Found(idx) == IF idx = 0 THEN EmptyObj ELSE books[idx]

\* A getter without its try/catch: the rejection of _getFile leaves the getter.
Rethrown(rejected) == rejected

\* try { await this._getFile(bookId) ... } catch { return null }: whether the
\* awaited call rejects or not, no exception leaves the getter.
CaughtAtFacade(rejected) == FALSE

\* Whether getFileUrl, getFileDataUrl throw to their caller.
getFileUrlThrows(bookId, failRead) == CaughtAtFacade(getFile(bookId, failRead).threw)

getFileDataUrlThrows(bookId, failRead) == CaughtAtFacade(getFile(bookId, failRead).threw)

\* getFileUrl: << >> is null; a data URL in the native tier, else the object URL
\* of a Blob of the bytes with the stored type.
getFileUrl(bookId, failRead) == IF getFile(bookId, failRead).threw \/ getFile(bookId, failRead).file = << >> THEN << >> ELSE IF isNative THEN <<arrayBufferToDataUrl(getFile(bookId, failRead).file[1].data, getFile(bookId, failRead).file[1].mimeType)>> ELSE <<[blob |-> getFile(bookId, failRead).file[1].data, type |-> getFile(bookId, failRead).file[1].mimeType]>>

\* getFileDataUrl: << >> is null, else the data URL; any throw is caught.
getFileDataUrl(bookId, failRead) == IF getFile(bookId, failRead).threw \/ getFile(bookId, failRead).file = << >> THEN << >> ELSE <<arrayBufferToDataUrl(getFile(bookId, failRead).file[1].data, getFile(bookId, failRead).file[1].mimeType)>>

\* The payload stores when no payload request is sent.
NoFileRequest == [threw |-> FALSE, fs |-> fsFiles, idb |-> idbFiles]

\* The codec at rest.
NoCodec == [step |-> "idle", buffer |-> << >>, size |-> chunkSize, prefix |-> << >>, text |-> << >>, bytes |-> << >>]

\* inflight: the mutating calls that await a backend; initAll: the list init's
\* load resolved with. History, read by the properties only: startup, the tier's
\* records when the service was constructed; early, the ids added before init
\* assigned the cache; duringInit, a mutation was called before init finished;
\* overlapped, two mutations were in flight together; ops, the mutating methods
\* called since construction.
NoTasks == [inflight |-> << >>, initAll |-> << >>, startup |-> << >>, early |-> {}, duringInit |-> FALSE, overlapped |-> FALSE, ops |-> {}]

InitService == /\ isNative \in BOOLEAN
               /\ Preferences = FALSE /\ Filesystem = FALSE /\ db = FALSE
               /\ books = << >> /\ isLoading = TRUE
               /\ prefsValue = << >> /\ lsValue = << >>
               /\ idbBooks = EmptyStore /\ idbFiles = EmptyStore /\ fsFiles = EmptyStore
               /\ nextId = 1 /\ today = 1 /\ phase = "boot"
               /\ calls = 0 /\ restarts = 0 /\ faults = 0 /\ last = NoCall /\ bare = {}

Init == InitService /\ codec = NoCodec /\ tasks = NoTasks

\* init(), run to completion before the first mutation.
init == /\ phase = "boot"
        /\ \E failPrefs, failFs, failLoad, failOpen, failLsGet \in BOOLEAN :
             IF isNative
             THEN /\ Preferences' = ~failPrefs
                  /\ Filesystem' = ~failFs
                  /\ db' = db
                  /\ books' = nativeLoadBooks(~failPrefs, failLoad, failLsGet)
                  /\ faults' = faults + B(failPrefs) + B(failFs) + (IF failPrefs THEN B(failLsGet) ELSE B(failLoad))
                  /\ last' = [NoCall EXCEPT !.op = "init", !.loadFail = ~failPrefs /\ failLoad, !.flatFail = failPrefs /\ failLsGet, !.allReturned = last.allReturned]
             ELSE /\ db' = ~failOpen
                  /\ books' = IF failOpen \/ failLoad THEN localStorageLoadBooks(failLsGet) ELSE getAllBooks
                  /\ faults' = faults + B(failOpen) + B(~failOpen /\ failLoad) + B((failOpen \/ failLoad) /\ failLsGet)
                  /\ last' = [NoCall EXCEPT !.op = "init", !.loadFail = failOpen \/ failLoad, !.flatFail = (failOpen \/ failLoad) /\ failLsGet, !.allReturned = last.allReturned]
                  /\ UNCHANGED <<Preferences, Filesystem>>
        /\ faults' <= MaxFaults
        /\ isLoading' = FALSE
        /\ phase' = "ready"
        /\ UNCHANGED <<isNative, stores, nextId, today, calls, restarts, bare, aux>>

addBook == /\ phase = "ready" /\ calls < MaxCalls /\ nextId <= MaxAdds
           /\ \E now \in today..MaxDay, ft \in FileTypes, mime \in MimeTypes \cup {AbsentStr}, fileData \in Payloads \cup {NoData}, failRec, failLs, failFile \in BOOLEAN :
                LET book == [id |-> nextId, addedDate |-> now, fileType |-> ft, fileMimeType |-> mime]
                    r1 == saveBook(book, failRec, failLs)
                    tried == ~r1.threw /\ ShouldSaveFile(fileData, book)
                    r2 == IF tried THEN saveFile([id |-> book.id, data |-> fileData, mimeType |-> IF mime # AbsentStr THEN mime ELSE DefaultMime], failFile) ELSE NoFileRequest
                    threw == r1.threw \/ r2.threw
                IN /\ prefsValue' = r1.prefs /\ lsValue' = r1.ls /\ idbBooks' = r1.idb
                   /\ fsFiles' = r2.fs /\ idbFiles' = r2.idb
                   /\ books' = IF threw THEN books ELSE Prepend(book, books)
                   /\ last' = [op |-> "add", id |-> book.id, threw |-> threw, recFail |-> RecWriteFails(failRec, failLs), fileFail |-> tried /\ FileRequestFails(failFile), fileTried |-> tried, hasData |-> fileData # NoData, fileType |-> ft, writes |-> RecRequests(failRec) + (IF tried THEN FileRequests ELSE 0), data |-> fileData, loadFail |-> FALSE, flatFail |-> FALSE, allReturned |-> last.allReturned /\ ~threw]
                   /\ bare' = IF ft = "URL" \/ fileData = NoData THEN bare \cup {book.id} ELSE bare
                   /\ today' = now
                   /\ faults' = faults + RecFaults(failRec, failLs) + B(tried /\ FileRequestFails(failFile))
           /\ faults' <= MaxFaults
           /\ nextId' = nextId + 1
           /\ calls' = calls + 1
           /\ UNCHANGED <<isNative, Preferences, Filesystem, db, isLoading, phase, restarts, aux>>

deleteBook == /\ phase = "ready" /\ calls < MaxCalls
              /\ \E id \in Ids, failRec, failLs, failFile \in BOOLEAN :
                   LET r1 == deleteBookRecord(id, failRec, failLs)
                       r2 == IF r1.threw THEN NoFileRequest ELSE deleteFile(id, failFile)
                       threw == r1.threw \/ r2.threw
                   IN /\ prefsValue' = r1.prefs /\ lsValue' = r1.ls /\ idbBooks' = r1.idb
                      /\ fsFiles' = r2.fs /\ idbFiles' = r2.idb
                      /\ books' = IF threw THEN books ELSE FilterOutId(books, id)
                      /\ last' = [op |-> "delete", id |-> id, threw |-> threw, recFail |-> (isNative \/ db) /\ RecWriteFails(failRec, failLs), fileFail |-> ~r1.threw /\ FileRequestFails(failFile), fileTried |-> ~r1.threw, hasData |-> FALSE, fileType |-> AbsentStr, writes |-> (IF isNative \/ db THEN RecRequests(failRec) ELSE 0) + (IF r1.threw THEN 0 ELSE FileRequests), data |-> NoData, loadFail |-> FALSE, flatFail |-> FALSE, allReturned |-> last.allReturned /\ ~threw]
                      /\ faults' = faults + (IF isNative \/ db THEN RecFaults(failRec, failLs) ELSE 0) + B(~r1.threw /\ FileRequestFails(failFile))
              /\ faults' <= MaxFaults
              /\ calls' = calls + 1
              /\ UNCHANGED <<isNative, Preferences, Filesystem, db, isLoading, nextId, today, phase, restarts, bare, aux>>

updateBook == /\ phase = "ready" /\ calls < MaxCalls
              /\ \E id \in Ids, updates \in Updates, failRec, failLs \in BOOLEAN :
                   LET idx == FindIndex(books, id)
                       newBook == Spread(Found(idx), updates)
                       r1 == saveBook(newBook, failRec, failLs)
                   IN IF NotFound(idx)
                      THEN /\ UNCHANGED <<books, stores, faults>>
                           /\ last' = [op |-> "update", id |-> id, threw |-> FALSE, recFail |-> FALSE, fileFail |-> FALSE, fileTried |-> FALSE, hasData |-> FALSE, fileType |-> AbsentStr, writes |-> 0, data |-> NoData, loadFail |-> FALSE, flatFail |-> FALSE, allReturned |-> last.allReturned]
                      ELSE /\ prefsValue' = r1.prefs /\ lsValue' = r1.ls /\ idbBooks' = r1.idb
                           /\ UNCHANGED <<fsFiles, idbFiles>>
                           /\ books' = IF r1.threw THEN books ELSE ReplaceById(books, id, newBook)
                           /\ last' = [op |-> "update", id |-> id, threw |-> r1.threw, recFail |-> RecWriteFails(failRec, failLs), fileFail |-> FALSE, fileTried |-> FALSE, hasData |-> FALSE, fileType |-> AbsentStr, writes |-> RecRequests(failRec), data |-> NoData, loadFail |-> FALSE, flatFail |-> FALSE, allReturned |-> last.allReturned /\ ~r1.threw]
                           /\ faults' = faults + RecFaults(failRec, failLs)
              /\ faults' <= MaxFaults
              /\ calls' = calls + 1
              /\ UNCHANGED <<isNative, Preferences, Filesystem, db, isLoading, nextId, today, phase, restarts, bare, aux>>

\* The process ends and the service is constructed again: the fields take their
\* initial values, the backends keep theirs, and the constructor starts init().
Restart == /\ phase = "ready" /\ restarts < MaxRestarts
           /\ Preferences' = FALSE /\ Filesystem' = FALSE /\ db' = FALSE
           /\ books' = << >> /\ isLoading' = TRUE /\ phase' = "boot"
           /\ restarts' = restarts + 1
           /\ last' = [NoCall EXCEPT !.allReturned = last.allReturned]
           /\ UNCHANGED <<isNative, stores, nextId, today, calls, faults, bare, aux>>

Next == init \/ addBook \/ deleteBook \/ updateBook \/ Restart

Spec == Init /\ [][Next]_vars

\* ------------------------------------------------------- calls that overlap
\* The methods are async: each await gives way to whatever else is pending. In
\* this specification a call is split at its awaits, no request fails, and a
\* request takes effect in the backend when it is sent.
RemoveAt(seq, i) == SubSeq(seq, 1, i - 1) \o SubSeq(seq, i + 1, Len(seq))

\* init up to 'await import(...)' of the plugins, or 'await this._openDB()'.
initAcquire == /\ \/ /\ isNative /\ phase = "boot"
                     /\ Preferences' = TRUE /\ phase' = "plugin"
                     /\ UNCHANGED <<Filesystem, db>>
                  \/ /\ isNative /\ phase = "plugin"
                     /\ Filesystem' = TRUE /\ phase' = "caps"
                     /\ UNCHANGED <<Preferences, db>>
                  \/ /\ ~isNative /\ phase = "boot"
                     /\ db' = TRUE /\ phase' = "caps"
                     /\ UNCHANGED <<Preferences, Filesystem>>
               /\ UNCHANGED <<isNative, books, isLoading, stores, nextId, today, calls, restarts, faults, last, bare, codec, tasks>>

\* The backend answers init's load: 'all' is what the store holds now.
initLoad == /\ phase = "caps"
            /\ tasks' = [tasks EXCEPT !.initAll = IF isNative THEN nativeLoadBooks(TRUE, FALSE, FALSE) ELSE getAllBooks]
            /\ phase' = "loaded"
            /\ UNCHANGED <<isNative, Preferences, Filesystem, db, books, isLoading, stores, nextId, today, calls, restarts, faults, last, bare, codec>>

\* this.books.set(all), and the finally block.
initSet == /\ phase = "loaded"
           /\ books' = tasks.initAll
           /\ isLoading' = FALSE
           /\ phase' = "ready"
           /\ UNCHANGED <<isNative, Preferences, Filesystem, db, stores, nextId, today, calls, restarts, faults, last, bare, codec, tasks>>

\* The bookkeeping of a mutating call that starts.
Started(task) == [tasks EXCEPT !.inflight = Append(@, task), !.early = IF phase # "ready" /\ task.op = "add" THEN @ \cup {task.id} ELSE @, !.duringInit = @ \/ phase # "ready", !.overlapped = @ \/ tasks.inflight # << >>, !.ops = @ \cup {task.op}]

\* addBook up to 'await this._saveBook(book)'.
addBookCall == /\ calls < MaxCalls /\ nextId <= MaxAdds /\ Len(tasks.inflight) < MaxInflight
               /\ \E now \in today..MaxDay, ft \in FileTypes, mime \in MimeTypes \cup {AbsentStr}, fileData \in Payloads \cup {NoData} :
                    LET book == [id |-> nextId, addedDate |-> now, fileType |-> ft, fileMimeType |-> mime]
                        r1 == saveBook(book, FALSE, FALSE)
                    IN /\ prefsValue' = r1.prefs /\ lsValue' = r1.ls /\ idbBooks' = r1.idb
                       /\ tasks' = Started([op |-> "add", id |-> book.id, book |-> book, data |-> fileData, stage |-> "record"])
                       /\ today' = now
               /\ nextId' = nextId + 1
               /\ calls' = calls + 1
               /\ UNCHANGED <<isNative, Preferences, Filesystem, db, books, isLoading, fsFiles, idbFiles, phase, restarts, faults, last, bare, codec>>

\* deleteBook up to 'await this._deleteBook(id)'.
deleteBookCall == /\ calls < MaxCalls /\ Len(tasks.inflight) < MaxInflight
                  /\ \E id \in Ids :
                       LET r1 == deleteBookRecord(id, FALSE, FALSE)
                       IN /\ prefsValue' = r1.prefs /\ lsValue' = r1.ls /\ idbBooks' = r1.idb
                          /\ tasks' = Started([op |-> "delete", id |-> id, book |-> EmptyObj, data |-> NoData, stage |-> "record"])
                  /\ calls' = calls + 1
                  /\ UNCHANGED <<isNative, Preferences, Filesystem, db, books, isLoading, fsFiles, idbFiles, nextId, today, phase, restarts, faults, last, bare, codec>>

\* updateBook up to 'await this._saveBook(newBook)', or its early return.
updateBookCall == /\ calls < MaxCalls /\ Len(tasks.inflight) < MaxInflight
                  /\ \E id \in Ids, updates \in Updates :
                       LET idx == FindIndex(books, id)
                           newBook == Spread(Found(idx), updates)
                           r1 == saveBook(newBook, FALSE, FALSE)
                       IN IF NotFound(idx)
                          THEN UNCHANGED <<prefsValue, lsValue, idbBooks, tasks>>
                          ELSE /\ prefsValue' = r1.prefs /\ lsValue' = r1.ls /\ idbBooks' = r1.idb
                               /\ tasks' = Started([op |-> "update", id |-> id, book |-> newBook, data |-> NoData, stage |-> "record"])
                  /\ calls' = calls + 1
                  /\ UNCHANGED <<isNative, Preferences, Filesystem, db, books, isLoading, fsFiles, idbFiles, nextId, today, phase, restarts, faults, last, bare, codec>>

\* Whether a call has a payload request after its record request.
HasPayloadStep(task) == (task.op = "add" /\ ShouldSaveFile(task.data, task.book)) \/ task.op = "delete"

\* A call resumes after its record request: 'await this._saveFile(...)' of
\* addBook, 'await this._deleteFile(id)' of deleteBook.
payloadStep == \E i \in 1..Len(tasks.inflight) :
                 LET task == tasks.inflight[i]
                     r2 == IF task.op = "add" THEN saveFile([id |-> task.id, data |-> task.data, mimeType |-> IF task.book.fileMimeType # AbsentStr THEN task.book.fileMimeType ELSE DefaultMime], FALSE) ELSE deleteFile(task.id, FALSE)
                 IN /\ task.stage = "record" /\ HasPayloadStep(task)
                    /\ fsFiles' = r2.fs /\ idbFiles' = r2.idb
                    /\ tasks' = [tasks EXCEPT !.inflight[i].stage = "payload"]
                    /\ UNCHANGED <<isNative, Preferences, Filesystem, db, books, isLoading, prefsValue, lsValue, idbBooks, nextId, today, phase, calls, restarts, faults, last, bare, codec>>

\* A call resumes after its last await: this.books.update(...), and it returns.
finish == \E i \in 1..Len(tasks.inflight) :
            LET task == tasks.inflight[i]
            IN /\ task.stage = "payload" \/ ~HasPayloadStep(task)
               /\ books' = IF task.op = "add" THEN Prepend(task.book, books) ELSE IF task.op = "delete" THEN FilterOutId(books, task.id) ELSE ReplaceById(books, task.id, task.book)
               /\ tasks' = [tasks EXCEPT !.inflight = RemoveAt(@, i)]
               /\ UNCHANGED <<isNative, Preferences, Filesystem, db, isLoading, stores, nextId, today, phase, calls, restarts, faults, last, bare, codec>>

\* No call is running: init has finished and no mutation is in flight.
Quiescent == phase = "ready" /\ tasks.inflight = << >>

\* The process ends at rest and the service is constructed again.
restartAtRest == /\ Quiescent /\ restarts < MaxRestarts
                 /\ Preferences' = FALSE /\ Filesystem' = FALSE /\ db' = FALSE
                 /\ books' = << >> /\ isLoading' = TRUE /\ phase' = "boot"
                 /\ restarts' = restarts + 1
                 /\ tasks' = [NoTasks EXCEPT !.startup = IF isNative THEN SortByDateDesc(prefsValue) ELSE getAllBooks]
                 /\ UNCHANGED <<isNative, stores, nextId, today, calls, faults, last, bare, codec>>

NextAsync == initAcquire \/ initLoad \/ initSet \/ addBookCall \/ deleteBookCall \/ updateBookCall \/ payloadStep \/ finish \/ restartAtRest

SpecAsync == Init /\ [][NextAsync]_vars

\* ---------------------------------------------------------------- the codec
\* The service's own variables, which a codec call leaves alone.
service == <<isNative, Preferences, Filesystem, db, books, isLoading, prefsValue, lsValue, idbBooks, idbFiles, fsFiles, nextId, today, phase, calls, restarts, faults, last, bare>>

\* A symbol of the data URL's prefix that is neither a base64 digit nor ',':
\* the ':' and ';' of 'data:<mime>;base64'.
OtherSym == 66

\* Byte values at the ends and in the middle of 0..255.
ByteValues == {0, 1, 127, 128, 255}

\* The buffers given to the codec: every sequence of at most MaxLen of them.
Buffers == UNION {[1..n -> ByteValues] : n \in 0..MaxLen}

\* The chunk size of the code, and a small one that the buffers exceed.
ChunkSizes == {chunkSize, SmallChunk}

\* 'data:<mime>;base64' prefixes: digits and other symbols, no comma.
Prefixes == {<<OtherSym>>, <<3, 0, OtherSym, 1, 63, OtherSym>>}

\* The codec is called on its own: the native tier, nothing else running.
InitCodec == /\ InitService /\ isNative /\ tasks = NoTasks
             /\ \E b \in Buffers, n \in ChunkSizes, p \in Prefixes : codec = [NoCodec EXCEPT !.step = "input", !.buffer = b, !.size = n, !.prefix = p]

\* _arrayBufferToBase64(buffer)
Encode == /\ codec.step = "input"
          /\ codec' = [codec EXCEPT !.step = "encoded", !.text = arrayBufferToBase64By(codec.buffer, codec.size)]
          /\ UNCHANGED <<service, tasks>>

\* _base64ToArrayBuffer(text)
DecodeBare == /\ codec.step = "encoded"
              /\ codec' = [codec EXCEPT !.step = "decoded", !.bytes = base64ToArrayBuffer(codec.text)]
              /\ UNCHANGED <<service, tasks>>

\* _base64ToArrayBuffer('data:<mime>;base64,' + text)
DecodePrefixed == /\ codec.step = "encoded"
                  /\ codec' = [codec EXCEPT !.step = "decodedUri", !.bytes = base64ToArrayBuffer(codec.prefix \o <<CommaSym>> \o codec.text)]
                  /\ UNCHANGED <<service, tasks>>

NextCodec == Encode \/ DecodeBare \/ DecodePrefixed

SpecCodec == InitCodec /\ [][NextCodec]_vars

\* --------------------------------------------------------------- properties
InCache(id) == id \in IdsOf(books)

\* The record collection a load from the active backend returns.
DurableBooks == IF isNative THEN (IF Preferences THEN SortByDateDesc(prefsValue) ELSE lsValue) ELSE (IF db THEN getAllBooks ELSE lsValue)

DistinctIds(list) == \A i, j \in 1..Len(list) : i # j => list[i].id # list[j].id

SortedDesc(list) == \A i, j \in 1..Len(list) : i < j => list[i].addedDate >= list[j].addedDate

\* The step is a finished call of the named method.
IsCall(op) == calls' = calls + 1 /\ last'.op = op

\* C1: when the record write inside addBook fails, the cache does not hold the
\* new record after the call and equals the durable record collection.
C1_FailedAddNotCached == (last.op = "add" /\ last.recFail) => (~InCache(last.id) /\ books = DurableBooks)

\* C2: a failing record write or delete is not caught by the tier driver: it
\* leaves addBook, deleteBook and updateBook as an exception of that call.
C2_RecordFailurePropagates == (last.op \in {"add", "delete", "update"} /\ last.recFail) => last.threw

\* C3: a failing payload write during addBook never reaches the caller: the call
\* returns the record and the record is in the cache.
C3_PayloadFailureNotPropagated == (last.op = "add" /\ last.fileFail) => (~last.threw /\ InCache(last.id))

\* C4: in deleteBook a failing payload deletion does not block the record
\* deletion: once the removal of a cached record is persisted, the call does not
\* throw and the record leaves the cache.
C4_PayloadDeleteBestEffort == [][(IsCall("delete") /\ InCache(last'.id) /\ ~last'.recFail /\ last'.fileFail) => (~last'.threw /\ last'.id \notin IdsOf(books'))]_vars

\* C5: the ids of the records of the cache, and of the stored record collections,
\* are pairwise distinct in every reachable state.
C5_IdsUnique == DistinctIds(books) /\ DistinctIds(prefsValue) /\ DistinctIds(lsValue)

\* C6: once init has run, and after every addBook, updateBook and deleteBook, the
\* cache is sorted descending by addedDate.
C6_CacheSortedByDate == phase = "ready" => SortedDesc(books)

\* C7: updateBook leaves every stored payload as it was: the bytes and the MIME
\* type that _getFile returns for an id are the same before and after the call.
C7_UpdateKeepsPayload == [][IsCall("update") => \A id \in Ids : getFile(id, FALSE).file # << >> => getFile(id, FALSE)' = getFile(id, FALSE)]_vars

\* C8: deleteBook of an id that neither the cache nor the durable collection
\* holds, with no backend request failing, does not throw and leaves the cache and
\* the durable record collection as they were.
C8_DeleteMissingIsNoop == [][(IsCall("delete") /\ last'.id \notin (IdsOf(books) \cup IdsOf(DurableBooks)) /\ ~last'.recFail /\ ~last'.fileFail) => (~last'.threw /\ books' = books /\ DurableBooks' = DurableBooks)]_vars

\* C9: updateBook with an id that is not in the cache is a no-op: it sends no
\* backend request, does not throw, and the cache, the stored record collections
\* and the payload stores are unchanged.
C9_UpdateMissingIsNoop == [][(IsCall("update") /\ ~InCache(last'.id)) => (last'.writes = 0 /\ ~last'.threw /\ UNCHANGED <<books, stores>>)]_vars

C9_Witness == last.op = "update" /\ last.writes = 0 /\ books # << >> /\ ~InCache(last.id) /\ DurableBooks # << >>

\* C10: addBook attempts the payload write only when bytes are given and the
\* fileType is not 'URL'; an id added as 'URL' or without bytes never has a payload
\* entry, and getFileDataUrl(id) is null for it.
C10_PayloadOnlyWithBytesAndNotUrl == /\ (last.op = "add" /\ last.fileTried) => (last.hasData /\ last.fileType # "URL")
                                     /\ \A id \in bare : id \notin DOMAIN fsFiles /\ id \notin DOMAIN idbFiles /\ \A failRead \in BOOLEAN : getFileDataUrl(id, failRead) = << >>

C10_Witness == last.op = "add" /\ last.fileType = "URL" /\ last.hasData /\ ~last.threw /\ InCache(last.id) /\ (Filesystem \/ db) /\ \E id \in Ids \ bare : getFileDataUrl(id, FALSE) # << >>

\* The records of the selected tier's own store, as its load returns them.
TierRecords == IF isNative THEN SortByDateDesc(prefsValue) ELSE getAllBooks

\* What the Flat Tier's load returns in the state: [] when getItem throws.
FlatLoadResult == localStorageLoadBooks(last.flatFail)

\* C11: init never throws and always completes: whatever fails in it, it ends
\* with isLoading false and the cache holding the selected tier's records or the
\* result of the Flat Tier's load (empty when that load fails too).
C11_InitAlwaysCompletes == last.op = "init" => (~last.threw /\ ~isLoading /\ phase = "ready" /\ (books = TierRecords \/ books = FlatLoadResult))

\* C12: when the selected tier's initial load fails during init (Preferences.get
\* throws, or the IndexedDB open or getAll fails), the cache is the result of the
\* Flat Tier's load.
C12_FailedLoadFallsBackToFlat == (last.op = "init" /\ last.loadFail) => books = FlatLoadResult

\* The handle of the selected tier's record store: this.Preferences, this.db.
TierStoreAvailable == IF isNative THEN Preferences ELSE db

PayloadStoreAvailable == IF isNative THEN Filesystem ELSE db

\* The payload entries of the selected tier.
PayloadIds == IF isNative THEN DOMAIN fsFiles ELSE DOMAIN idbFiles

\* C14: getFileUrl and getFileDataUrl never throw; for any id, when the payload
\* backend is missing or unopened, the read fails, or no payload is stored under
\* the id, both return null.
C14_GettersNeverThrow == \A id \in Ids, failRead \in BOOLEAN : /\ ~getFileUrlThrows(id, failRead) /\ ~getFileDataUrlThrows(id, failRead) /\ ((~PayloadStoreAvailable \/ failRead \/ id \notin PayloadIds) => (getFileUrl(id, failRead) = << >> /\ getFileDataUrl(id, failRead) = << >>))

\* A stored payload whose read request rejects inside _idbGetFile.
C14_Witness == ~isNative /\ db /\ \E id \in PayloadIds : getFile(id, TRUE).threw /\ getFileUrl(id, TRUE) = << >> /\ getFileDataUrl(id, TRUE) = << >> /\ getFileUrl(id, FALSE) # << >> /\ getFileDataUrl(id, FALSE) # << >>

\* The MIME type addBook stores with the payload of a record.
StoredMime(book) == IF book.fileMimeType # AbsentStr THEN book.fileMimeType ELSE DefaultMime

\* C15: after addBook of a record that is not 'URL' with bytes b, the payload
\* backend being there and no request failing, the call returned the record at
\* the head of the cache, and getFileDataUrl(id) is a data URL with the MIME type
\* stored with the payload (fileMimeType, else 'application/pdf') whose text
\* decodes to exactly b, in the native and in the transactional tier.
C15_AddThenFetch == (last.op = "add" /\ last.hasData /\ last.fileType # "URL" /\ PayloadStoreAvailable /\ ~last.recFail /\ ~last.fileFail) => (/\ ~last.threw /\ books # << >> /\ books[1].id = last.id /\ books[1].fileType = last.fileType /\ getFileDataUrl(last.id, FALSE) # << >> /\ getFileDataUrl(last.id, FALSE)[1].mime = StoredMime(books[1]) /\ base64ToArrayBuffer(getFileDataUrl(last.id, FALSE)[1].text) = last.data)

\* A native add without fileMimeType whose bytes went through the text file.
C15_Witness == last.op = "add" /\ isNative /\ Filesystem /\ last.hasData /\ last.fileType = "PDF" /\ ~last.recFail /\ ~last.fileFail /\ last.id \in DOMAIN fsFiles /\ books[1].fileMimeType = AbsentStr /\ getFileDataUrl(last.id, FALSE)[1].mime = DefaultMime

\* C16 (as claimed): a payload never outlives its record: after a deleteBook(id)
\* that returns, the record is not in the cache and getFileDataUrl(id) is null.
C16_PayloadNeverOutlivesRecord == (last.op = "delete" /\ ~last.threw) => (~InCache(last.id) /\ getFileDataUrl(last.id, FALSE) = << >>)

\* C16 (amended): after a deleteBook(id) that returns, the record is not in the
\* cache, and getFileDataUrl(id) is null when the payload deletion request did
\* not fail; a failed payload deletion that the driver swallows leaves the
\* payload behind.
C16_DeleteRemovesPayloadUnlessItFails == [][(IsCall("delete") /\ ~last'.threw) => \A id \in Ids : last'.id = id => (id \notin IdsOf(books') /\ (~last'.fileFail => getFileDataUrl(id, FALSE)' = << >>))]_vars

\* A record added with a payload in a session without failures, then deleted.
C16_Witness == last.op = "delete" /\ ~last.threw /\ last.fileTried /\ ~last.fileFail /\ PayloadStoreAvailable /\ faults = 0 /\ restarts = 0 /\ last.id < nextId /\ last.id \notin bare /\ last.id \notin PayloadIds /\ ~InCache(last.id)

\* C17: the codec round-trips: for every buffer b, of any length (empty, and
\* shorter than, equal to and longer than a chunk) and any byte values,
\* _base64ToArrayBuffer(_arrayBufferToBase64(b)) = b, the chunked loop yields the
\* base64 text of the whole buffer, and decoding the text behind a data URL
\* prefix gives the same bytes as decoding the bare text.
C17_CodecRoundTrips == /\ codec.step \in {"encoded", "decoded", "decodedUri"} => codec.text = Btoa(codec.buffer)
                       /\ codec.step = "decoded" => codec.bytes = codec.buffer
                       /\ codec.step = "decodedUri" => (codec.bytes = base64ToArrayBuffer(codec.text) /\ codec.bytes = codec.buffer)

\* A buffer longer than a chunk, with the bytes 255 and 0, decoded from the
\* prefixed form.
C17_Witness == codec.step = "decodedUri" /\ Len(codec.buffer) > codec.size /\ codec.buffer[1] = 255 /\ codec.buffer[Len(codec.buffer)] = 0 /\ codec.bytes = codec.buffer

RecordsOf(list) == {list[i] : i \in 1..Len(list)}

\* C18: restart equivalence: when no mutation has thrown, at every point between
\* calls the records a fresh init would load from the same backends, with the
\* same handles available, are the records of the cache, also without the
\* Preferences plugin and in a session whose database failed to open.
C18_RestartEquivalence == (phase = "ready" /\ last.allReturned) => RecordsOf(DurableBooks) = RecordsOf(books)

\* C19: sequential use is safe in the native tier: when no two mutations were
\* in flight together (and none ran during init), then once all calls have
\* returned the durable collection holds exactly the records of the cache. (The
\* other half of the claim, that overlapping calls reach a state where it does
\* not, is C19_OverlapHazard.)
C19_SequentialNeverDiverges == (Quiescent /\ isNative /\ ~tasks.overlapped /\ ~tasks.duringInit) => RecordsOf(DurableBooks) = RecordsOf(books)

\* Two addBook calls overlapped after init, both have returned, and the cache
\* holds a record that the Preferences collection lacks.
C19_OverlapHazard == Quiescent /\ isNative /\ Preferences /\ tasks.overlapped /\ ~tasks.duringInit /\ tasks.ops = {"add"} /\ calls = 2 /\ Len(books) = 2 /\ \E b \in RecordsOf(books) : b \notin RecordsOf(prefsValue)

\* C20: an addBook that runs while init is still loading loses nothing: once
\* init and the call have both finished, every record the tier's store held when
\* the service was constructed is still in the store, and the cache holds the
\* added record together with those records.
C20_MutationDuringInitLosesNothing == (Quiescent /\ tasks.early # {} /\ tasks.ops = {"add"}) => (/\ RecordsOf(tasks.startup) \subseteq RecordsOf(TierRecords) /\ tasks.early \subseteq IdsOf(books) /\ RecordsOf(tasks.startup) \subseteq RecordsOf(books))

====
